---------------------------- MODULE Spec2Model ----------------------------
(***************************************************************************)
(* enum-creator (src/index.js): four operations that turn a JSON file, a   *)
(* CSV file, an object or an array into the text of TypeScript enum        *)
(* declarations and write it to `${name}.ts`.                              *)
(*                                                                         *)
(* Text is modelled byte for byte: a string is a sequence of one-character *)
(* strings, so splitting, substring search, upper-casing and the template  *)
(* literals of the source are computed as the code computes them.          *)
(***************************************************************************)
EXTENDS Integers, Sequences, FiniteSets, TLC

VARIABLES files, last

vars == <<files, last>>

(***************************************************************************)
(* Bounds of the model.                                                    *)
(***************************************************************************)
\* longest object (number of properties) the object specification draws
MaxKeys == 2
\* longest array the array specification draws
MaxLen == 2
\* most data rows of a generated CSV file
MaxRows == 2
\* longest text a call may read or write (caps the growth of a CSV file that is
\* regenerated from its own output)
MaxText == 160

(***************************************************************************)
(* The string literals of the source.                                      *)
(***************************************************************************)
ConstEnum == <<"c", "o", "n", "s", "t", " ", "e", "n", "u", "m", " ">>
OpenBraceSp == <<" ", "{", " ", "\n">>
OpenBrace == <<" ", "{", "\n">>
EqQuote == <<" ", "=", " ", "\"">>
EndEntrySp == <<"\"", ",", " ", "\n">>
EndEntry == <<"\"", ",", "\n">>
CloseExportDefault == <<"}", "\n", "e", "x", "p", "o", "r", "t", " ", "d", "e", "f", "a", "u", "l", "t", " ">>
Semicolon == <<";">>
CloseLn == <<"}", "\n">>
ExportOpen == <<"e", "x", "p", "o", "r", "t", " ", "{", "\n">>
CommaLn == <<",", "\n">>
CloseBrace == <<"}">>
DotTs == <<".", "t", "s">>
DotJson == <<".", "j", "s", "o", "n">>
DotCsv == <<".", "c", "s", "v">>

(***************************************************************************)
(* JavaScript strings.                                                     *)
(***************************************************************************)
LowerCase == <<"a", "b", "c", "d", "e", "f", "g", "h", "i", "j", "k", "l", "m", "n", "o", "p", "q", "r", "s", "t", "u", "v", "w", "x", "y", "z">>
UpperCase == <<"A", "B", "C", "D", "E", "F", "G", "H", "I", "J", "K", "L", "M", "N", "O", "P", "Q", "R", "S", "T", "U", "V", "W", "X", "Y", "Z">>
Digits == <<"0", "1", "2", "3", "4", "5", "6", "7", "8", "9">>

\* String.prototype.toUpperCase on one character of the model's alphabet
\* (ASCII): a lower-case letter maps to its capital, anything else to itself.
UpperChar(c) ==
    IF \E i \in DOMAIN LowerCase : LowerCase[i] = c
    THEN UpperCase[CHOOSE i \in DOMAIN LowerCase : LowerCase[i] = c]
    ELSE c

toUpperCase(s) == [i \in 1..Len(s) |-> UpperChar(s[i])]

\* String.prototype.includes
includes(s, sub) ==
    \E i \in 1..(Len(s) - Len(sub) + 1) : SubSeq(s, i, i + Len(sub) - 1) = sub

\* String.prototype.split with a one-character separator: the pieces between
\* consecutive separators, so always at least one piece, and "" splits into
\* [""].
split(s, sep) ==
    LET seps == {i \in 1..Len(s) : s[i] = sep}
        n == Cardinality(seps)
        \* the position of the k-th separator; 0 and Len(s) + 1 stand for the
        \* two ends of the string
        at(k) == IF k = 0 THEN 0
                 ELSE IF k = n + 1 THEN Len(s) + 1
                 ELSE CHOOSE i \in seps : Cardinality({j \in seps : j < i}) = k - 1
    IN  [k \in 1..(n + 1) |-> SubSeq(s, at(k - 1) + 1, at(k) - 1)]

IsDigit(c) == \E i \in DOMAIN Digits : Digits[i] = c

DigitValue(c) == (CHOOSE i \in DOMAIN Digits : Digits[i] = c) - 1

RECURSIVE StrToNum(_)
StrToNum(s) ==
    IF s = <<>> THEN 0
    ELSE 10 * StrToNum(SubSeq(s, 1, Len(s) - 1)) + DigitValue(s[Len(s)])

\* Number to string, for the non-negative integers of the model.
RECURSIVE NumToStr(_)
NumToStr(n) ==
    IF n < 10 THEN <<Digits[n + 1]>>
    ELSE NumToStr(n \div 10) \o <<Digits[(n % 10) + 1]>>

(***************************************************************************)
(* JavaScript values: undefined, strings, numbers, plain objects (their    *)
(* properties in creation order) and arrays.                               *)
(***************************************************************************)
Undefined == [t |-> "undefined"]
Str(s) == [t |-> "string", s |-> s]
Num(n) == [t |-> "number", n |-> n]
Obj(props) == [t |-> "object", props |-> props]
Arr(elems) == [t |-> "array", elems |-> elems]

typeOf(v) == IF v.t = "array" THEN "object" ELSE v.t

\* `${value}` in a template literal
TemplateStr(v) ==
    CASE v.t = "string" -> v.s
      [] v.t = "number" -> NumToStr(v.n)
      [] OTHER -> <<"u", "n", "d", "e", "f", "i", "n", "e", "d">>

\* A property key that is an array index: a canonical numeric string.  Keys
\* of ten or more digits do not occur in the model.
IsArrayIndex(k) ==
    /\ Len(k) > 0
    /\ Len(k) <= 9
    /\ \A i \in DOMAIN k : IsDigit(k[i])
    /\ (Len(k) = 1 \/ k[1] # "0")

RECURSIVE AscendingIndexProps(_, _)
AscendingIndexProps(props, S) ==
    IF S = {} THEN <<>>
    ELSE LET m == CHOOSE i \in S :
                    \A j \in S : StrToNum(props[i].k) <= StrToNum(props[j].k)
         IN  <<props[m]>> \o AscendingIndexProps(props, S \ {m})

\* Object.entries: own enumerable string-keyed properties in the order of
\* OrdinaryOwnPropertyKeys, array-index keys ascending first and then the
\* other keys in creation order.
ObjectEntries(object) ==
    IF object.t = "array"
    THEN [i \in 1..Len(object.elems) |-> [k |-> NumToStr(i - 1), v |-> object.elems[i]]]
    ELSE LET props == object.props
             idx == {i \in DOMAIN props : IsArrayIndex(props[i].k)}
             IsNamed(p) == ~IsArrayIndex(p.k)
         IN  AscendingIndexProps(props, idx) \o SelectSeq(props, IsNamed)

(***************************************************************************)
(* The validator (external package @mitchell-collins/validator): each      *)
(* check is TRUE when it passes and the call throws when it is FALSE.      *)
(***************************************************************************)
checkUndefinedArray(values) == \A i \in DOMAIN values : values[i].t # "undefined"

checkDataType(value, dataType) == typeOf(value) = dataType

checkDataTypeArray(values, dataType) ==
    \A i \in DOMAIN values : checkDataType(values[i], dataType)

checkIsArray(value) == value.t = "array"

(***************************************************************************)
(* The file system and the outcome of one call.                            *)
(***************************************************************************)
\* An I/O operation a call performed, in order.
ReadEvent(path, data) == [op |-> "read", path |-> path, data |-> data]
WriteEvent(path, data) == [op |-> "write", path |-> path, data |-> data]

\* The call threw `err`: the file system is as it was.
Throw(err, io, fs) == [outcome |-> err, io |-> io, files |-> fs]

\* variant of writeFileSync: appends to the file instead of replacing it
AppendFileSync(path, data, io, fs) ==
    LET old == IF path \in DOMAIN fs THEN fs[path] ELSE <<>>
    IN  [outcome |-> "ok",
         io |-> Append(io, WriteEvent(path, data)),
         files |-> [p \in DOMAIN fs \cup {path} |->
                        IF p = path THEN old \o data ELSE fs[p]]]

\* variant of writeFileSync: writes `${name}` without the extension
WriteFileSyncNoExtension(path, data, io, fs) ==
    LET target == SubSeq(path, 1, Len(path) - Len(DotTs))
    IN  [outcome |-> "ok",
         io |-> Append(io, WriteEvent(path, data)),
         files |-> [p \in DOMAIN fs \cup {target} |->
                        IF p = target THEN data ELSE fs[p]]]

\* fs.writeFileSync(path, data): creates or replaces the file, then the call
\* returns.
writeFileSync(path, data, io, fs) ==
    [outcome |-> "ok",
     io |-> Append(io, WriteEvent(path, data)),
     files |-> [p \in DOMAIN fs \cup {path} |-> IF p = path THEN data ELSE fs[p]]]

(***************************************************************************)
(* createFromObject                                                        *)
(***************************************************************************)
\* variant of ObjectEntryText: the key is not upper-cased
ObjectEntryTextNoUpper(key, value) ==
    key \o EqQuote \o TemplateStr(value) \o EndEntrySp

\* `${key.toUpperCase()} = "${value}", \n`
ObjectEntryText(key, value) ==
    toUpperCase(key) \o EqQuote \o TemplateStr(value) \o EndEntrySp

\* Object.entries(object).forEach(...) appending to newFileData
RECURSIVE ObjectLoop(_, _)
ObjectLoop(entries, i) ==
    IF i > Len(entries) THEN <<>>
    ELSE ObjectEntryText(entries[i].k, entries[i].v) \o ObjectLoop(entries, i + 1)

ObjectGuards(object, enumName) ==
    IF ~checkUndefinedArray(<<object, enumName>>) THEN "ArgumentError"
    ELSE IF ~checkDataType(object, "object") THEN "TypeMismatchError"
    ELSE IF ~checkDataType(enumName, "string") THEN "TypeMismatchError"
    ELSE "ok"

createFromObject(object, enumName, io, fs) ==
    LET pre == ObjectGuards(object, enumName)
    IN  IF pre # "ok" THEN Throw(pre, io, fs)
        ELSE LET newFileData ==
                     ConstEnum \o TemplateStr(enumName) \o OpenBraceSp
                     \o ObjectLoop(ObjectEntries(object), 1)
                     \o CloseExportDefault \o TemplateStr(enumName) \o Semicolon
             IN  writeFileSync(TemplateStr(enumName) \o DotTs, newFileData, io, fs)

(***************************************************************************)
(* createFromArray                                                         *)
(***************************************************************************)
\* variant of ArrayEntryText: name and value exchanged
ArrayEntryTextSwapped(element) ==
    element.s \o EqQuote \o toUpperCase(element.s) \o EndEntry

\* `${element.toUpperCase()} = "${element}",\n`
ArrayEntryText(element) ==
    toUpperCase(element.s) \o EqQuote \o element.s \o EndEntry

\* array.forEach(...): element.toUpperCase() throws a TypeError for an
\* element that is not a string; text holds what was assembled until then.
RECURSIVE ArrayLoop(_, _)
ArrayLoop(elems, i) ==
    IF i > Len(elems) THEN [ok |-> TRUE, text |-> <<>>]
    ELSE IF elems[i].t # "string" THEN [ok |-> FALSE, text |-> <<>>]
    ELSE LET rest == ArrayLoop(elems, i + 1)
         IN  [ok |-> rest.ok, text |-> ArrayEntryText(elems[i]) \o rest.text]

\* variant of ArrayGuards: only the array is validated
ArrayGuardsArrayOnly(array, enumName) ==
    IF ~checkIsArray(array) THEN "TypeMismatchError" ELSE "ok"

ArrayGuards(array, enumName) ==
    IF ~checkUndefinedArray(<<array, enumName>>) THEN "ArgumentError"
    ELSE IF ~checkIsArray(array) THEN "TypeMismatchError"
    ELSE IF ~checkDataType(enumName, "string") THEN "TypeMismatchError"
    ELSE "ok"

createFromArray(array, enumName, io, fs) ==
    LET pre == ArrayGuards(array, enumName)
    IN  IF pre # "ok" THEN Throw(pre, io, fs)
        ELSE LET body == ArrayLoop(array.elems, 1)
                 newFileData ==
                     ConstEnum \o TemplateStr(enumName) \o OpenBraceSp
                     \o body.text
                     \o CloseExportDefault \o TemplateStr(enumName) \o Semicolon
             IN  IF ~body.ok THEN Throw("TypeError", io, fs)
                 ELSE writeFileSync(TemplateStr(enumName) \o DotTs, newFileData, io, fs)

(***************************************************************************)
(* createFromCSV                                                           *)
(***************************************************************************)
\* fs.readFileSync(path): the text of the file; throws when there is none.
FileExists(path, fs) == path \in DOMAIN fs

\* variant of StripLeadingSpace: every leading space is removed (trimStart)
TrimStart(value) ==
    IF \A i \in DOMAIN value : value[i] = " " THEN <<>>
    ELSE SubSeq(value, CHOOSE i \in DOMAIN value :
                           /\ value[i] # " "
                           /\ \A j \in 1..(i - 1) : value[j] = " ",
                Len(value))

\* value = value[0] === " " ? value.slice(1, value.length) : value
StripLeadingSpace(value) ==
    IF Len(value) > 0 /\ value[1] = " " THEN SubSeq(value, 2, Len(value))
    ELSE value

\* `${value.toUpperCase()} = "${value}",\n`
CsvEntryText(value) == toUpperCase(value) \o EqQuote \o value \o EndEntry

\* for (let i = 1; i < lines.length; i++): `i` here is the 1-based position
\* of the line.  values[index] is undefined for a row with too few fields,
\* and value[0] then throws a TypeError.
RECURSIVE RowLoop(_, _, _)
RowLoop(lines, index, i) ==
    IF i > Len(lines) THEN [ok |-> TRUE, text |-> <<>>]
    ELSE LET values == split(lines[i], ",")
         IN  IF index > Len(values) THEN [ok |-> FALSE, text |-> <<>>]
             ELSE LET value == StripLeadingSpace(values[index])
                      rest == RowLoop(lines, index, i + 1)
                  IN  [ok |-> rest.ok, text |-> CsvEntryText(value) \o rest.text]

\* variant of FirstDataLine: the loop starts at the header line
FirstDataLineIncludingHeader == 2 - 1

\* the position of lines[1], the first line after the header line
FirstDataLine == 2

\* headings.forEach((heading, index) => ...): one enum per heading
RECURSIVE HeadingLoop(_, _, _)
HeadingLoop(headings, lines, index) ==
    IF index > Len(headings) THEN [ok |-> TRUE, text |-> <<>>]
    ELSE LET open == ConstEnum \o headings[index] \o OpenBrace
             rows == RowLoop(lines, index, FirstDataLine)
         IN  IF ~rows.ok THEN [ok |-> FALSE, text |-> open \o rows.text]
             ELSE LET rest == HeadingLoop(headings, lines, index + 1)
                  IN  [ok |-> rest.ok,
                       text |-> open \o rows.text \o CloseLn \o rest.text]

\* headings.forEach((heading) => { newFileData += `${heading},\n` })
RECURSIVE ExportLoop(_, _)
ExportLoop(headings, i) ==
    IF i > Len(headings) THEN <<>>
    ELSE headings[i] \o CommaLn \o ExportLoop(headings, i + 1)

\* variant of CSVGuards: the file type is not tested
CSVGuardsNoFileTypeCheck(filePath, newFileName) ==
    IF ~checkUndefinedArray(<<filePath, newFileName>>) THEN "ArgumentError"
    ELSE IF ~checkDataTypeArray(<<filePath, newFileName>>, "string") THEN "TypeMismatchError"
    ELSE "ok"

CSVGuards(filePath, newFileName) ==
    IF ~checkUndefinedArray(<<filePath, newFileName>>) THEN "ArgumentError"
    ELSE IF ~checkDataTypeArray(<<filePath, newFileName>>, "string") THEN "TypeMismatchError"
    ELSE IF ~includes(filePath.s, DotCsv) THEN "InvalidFileTypeError"
    ELSE "ok"

\* variant of CSVFinish: what was assembled is written before the error
\* leaves the function
CSVFinishPartialWrite(body, newFileData, newFileName, io, fs) ==
    IF ~body.ok
    THEN [outcome |-> "TypeError",
          io |-> Append(io, WriteEvent(TemplateStr(newFileName) \o DotTs, body.text)),
          files |-> [p \in DOMAIN fs \cup {TemplateStr(newFileName) \o DotTs} |->
                         IF p = TemplateStr(newFileName) \o DotTs THEN body.text ELSE fs[p]]]
    ELSE writeFileSync(TemplateStr(newFileName) \o DotTs, newFileData, io, fs)

\* A TypeError thrown inside the loops leaves the function before its last
\* statement, the write.
CSVFinish(body, newFileData, newFileName, io, fs) ==
    IF ~body.ok THEN Throw("TypeError", io, fs)
    ELSE writeFileSync(TemplateStr(newFileName) \o DotTs, newFileData, io, fs)

createFromCSV(filePath, newFileName, io, fs) ==
    LET pre == CSVGuards(filePath, newFileName)
    IN  IF pre # "ok" THEN Throw(pre, io, fs)
        ELSE IF ~FileExists(filePath.s, fs)
        THEN Throw("ENOENT", Append(io, ReadEvent(filePath.s, <<>>)), fs)
        ELSE LET data == fs[filePath.s]
                 io1 == Append(io, ReadEvent(filePath.s, data))
                 lines == split(data, "\n")
                 headings == split(lines[1], ",")
                 body == HeadingLoop(headings, lines, 1)
                 newFileData ==
                     body.text \o ExportOpen \o ExportLoop(headings, 1) \o CloseBrace
             IN  CSVFinish(body, newFileData, newFileName, io1, fs)

(***************************************************************************)
(* createFromJSON                                                          *)
(***************************************************************************)
ParseFail == [ok |-> FALSE, v |-> Undefined, next |-> 0]

\* A JSON string without escape sequences, starting at s[i].
ParseString(s, i) ==
    IF i > Len(s) \/ s[i] # "\"" THEN ParseFail
    ELSE LET closing == {j \in (i + 1)..Len(s) : s[j] = "\""}
         IN  IF closing = {} THEN ParseFail
             ELSE LET j == CHOOSE c \in closing : \A d \in closing : c <= d
                  IN  IF \E m \in (i + 1)..(j - 1) : s[m] \in {"\\", "\n"}
                      THEN ParseFail
                      ELSE [ok |-> TRUE, v |-> Str(SubSeq(s, i + 1, j - 1)), next |-> j + 1]

\* A JSON number that is a non-negative integer, starting at s[i].
ParseNumber(s, i) ==
    LET stops == {j \in i..Len(s) : ~IsDigit(s[j])}
        e == IF stops = {} THEN Len(s) + 1
             ELSE CHOOSE c \in stops : \A d \in stops : c <= d
    IN  IF e <= i THEN ParseFail
        ELSE IF e - i > 1 /\ s[i] = "0" THEN ParseFail
        ELSE [ok |-> TRUE, v |-> Num(StrToNum(SubSeq(s, i, e - 1))), next |-> e]

ParseLeaf(s, i) ==
    IF i <= Len(s) /\ s[i] = "\"" THEN ParseString(s, i) ELSE ParseNumber(s, i)

\* CreateDataProperty: a repeated key keeps its place and takes the new value.
DefineProperty(props, k, v) ==
    IF \E i \in DOMAIN props : props[i].k = k
    THEN [i \in DOMAIN props |-> IF props[i].k = k THEN [k |-> k, v |-> v] ELSE props[i]]
    ELSE Append(props, [k |-> k, v |-> v])

RECURSIVE ParseMembers(_, _, _)
ParseMembers(s, i, props) ==
    LET key == ParseString(s, i)
    IN  IF ~key.ok THEN ParseFail
        ELSE IF key.next > Len(s) \/ s[key.next] # ":" THEN ParseFail
        ELSE LET val == ParseLeaf(s, key.next + 1)
             IN  IF ~val.ok \/ val.next > Len(s) THEN ParseFail
                 ELSE LET props1 == DefineProperty(props, key.v.s, val.v)
                      IN  IF s[val.next] = "," THEN ParseMembers(s, val.next + 1, props1)
                          ELSE IF s[val.next] = "}"
                          THEN [ok |-> TRUE, v |-> Obj(props1), next |-> val.next + 1]
                          ELSE ParseFail

\* JSON.parse on the JSON texts the model's files hold: a number, a string,
\* or an object of string and number members, written without white space.
\* Any other text the model reads as JSON (a text this module generates, a
\* truncated document) is no JSON document at all and is a SyntaxError.
JSONparse(s) ==
    LET r == IF Len(s) >= 2 /\ s[1] = "{" /\ s[2] = "}"
             THEN [ok |-> TRUE, v |-> Obj(<<>>), next |-> 3]
             ELSE IF Len(s) >= 1 /\ s[1] = "{" THEN ParseMembers(s, 2, <<>>)
             ELSE ParseLeaf(s, 1)
    IN  IF r.ok /\ r.next = Len(s) + 1 THEN r ELSE ParseFail

JSONGuards(filePath, enumName) ==
    IF ~checkUndefinedArray(<<filePath, enumName>>) THEN "ArgumentError"
    ELSE IF ~checkDataTypeArray(<<filePath, enumName>>, "string") THEN "TypeMismatchError"
    ELSE IF ~includes(filePath.s, DotJson) THEN "InvalidFileTypeError"
    ELSE "ok"

createFromJSON(filePath, enumName, io, fs) ==
    LET pre == JSONGuards(filePath, enumName)
    IN  IF pre # "ok" THEN Throw(pre, io, fs)
        ELSE IF ~FileExists(filePath.s, fs)
        THEN Throw("ENOENT", Append(io, ReadEvent(filePath.s, <<>>)), fs)
        ELSE LET data == fs[filePath.s]
                 io1 == Append(io, ReadEvent(filePath.s, data))
                 object == JSONparse(data)
             IN  IF ~object.ok THEN Throw("ParseError", io1, fs)
                 ELSE createFromObject(object.v, enumName, io1, fs)

(***************************************************************************)
(* Calls.  A call's record names the operation and its arguments; Run is   *)
(* what the call does to a file system.                                    *)
(***************************************************************************)
Call(op, a, b) == [op |-> op, a |-> a, b |-> b]

Run(c, fs) ==
    CASE c.op = "createFromJSON" -> createFromJSON(c.a, c.b, <<>>, fs)
      [] c.op = "createFromCSV" -> createFromCSV(c.a, c.b, <<>>, fs)
      [] c.op = "createFromObject" -> createFromObject(c.a, c.b, <<>>, fs)
      [] c.op = "createFromArray" -> createFromArray(c.a, c.b, <<>>, fs)

\* A call is within the model's bounds when no text it reads or writes is
\* longer than MaxText.
Fits(r) == \A i \in DOMAIN r.io : Len(r.io[i].data) <= MaxText

\* What `last` records of a call that ran to completion: the call, how it
\* ended, the I/O it performed, and whether the call before it was the same
\* call.
Completed(c, r) ==
    [call |-> c, outcome |-> r.outcome, io |-> r.io, again |-> last.call = c]

NoCall ==
    [call |-> Call("none", Undefined, Undefined), outcome |-> "none", io |-> <<>>,
     again |-> FALSE]

(***************************************************************************)
(* Inputs.                                                                 *)
(***************************************************************************)
SeqsUpTo(S, n) == UNION {[1..k -> S] : k \in 0..n}

RECURSIVE Join(_, _)
Join(pieces, sep) ==
    IF Len(pieces) = 0 THEN <<>>
    ELSE IF Len(pieces) = 1 THEN pieces[1]
    ELSE pieces[1] \o sep \o Join(Tail(pieces), sep)

EnumE == <<"E">>
NameACsv == <<"a", ".", "c", "s", "v">>
PathTCsv == <<"t", ".", "c", "s", "v">>
PathDJson == <<"d", ".", "j", "s", "o", "n">>
PathACsvTs == NameACsv \o DotTs

\* objects of up to MaxKeys properties with distinct keys; "2" and "10" are
\* array-index keys
ObjKeys == {<<"a">>, <<"b", "c">>, <<"2">>, <<"1", "0">>}
ObjValues == {Str(<<"v">>), Num(34)}
GenObjects ==
    {Obj(p) : p \in {q \in SeqsUpTo([k : ObjKeys, v : ObjValues], MaxKeys) :
                        \A i, j \in DOMAIN q : i # j => q[i].k # q[j].k}}

\* arrays of up to MaxLen elements, strings and one number
ArrElems == {Str(<<"a">>), Str(<<"b", "C">>), Str(<<>>), Num(1)}
GenArrays == {Arr(a) : a \in SeqsUpTo(ArrElems, MaxLen)}

\* CSV texts: one or two headings, up to MaxRows data rows of one or two
\* fields each (so a row can be short or long for its header), fields with
\* no, one or two leading spaces, with or without a final newline
CsvHeaders == {<<<<"a">>>>, <<<<"a">>, <<"b">>>>}
CsvFields == {<<"x">>, <<" ", "y">>, <<" ", " ", "z">>}
CsvRows == [1..1 -> CsvFields] \cup [1..2 -> CsvFields]
GenCsvTexts ==
    {Join(<<Join(h, <<",">>)>> \o [i \in DOMAIN rows |-> Join(rows[i], <<",">>)], <<"\n">>) \o nl :
        h \in CsvHeaders, rows \in SeqsUpTo(CsvRows, MaxRows), nl \in {<<>>, <<"\n">>}}

\* a JSON object beside a table of full rows, and a truncated JSON document
\* beside a table with a short row and a final newline
MainFiles ==
    { [json |-> <<"{", "\"", "k", "\"", ":", "\"", "v", "\"", ",", "\"", "2", "\"", ":", "7", "}">>,
       csv |-> <<"a", ",", "b", "\n", "x", ",", " ", "y">>],
      [json |-> <<"{", "\"", "k", "\"", ":">>,
       csv |-> <<"a", ",", "b", "\n", "x", "\n">>] }

MainNames == {Str(EnumE), Str(NameACsv), Undefined}
MainJsonPaths == {Str(PathDJson), Str(PathTCsv), Undefined, Num(1)}
MainCsvPaths == {Str(PathTCsv), Str(PathACsvTs), Str(PathDJson), Undefined}
MainObjects ==
    { Obj(<<[k |-> <<"a">>, v |-> Str(<<"x">>)]>>),
      Arr(<<Str(<<"y">>)>>),
      Undefined,
      Str(<<"s">>) }
MainArrays ==
    { Arr(<<Str(<<"a">>)>>),
      Arr(<<Str(<<"a">>), Num(1)>>),
      Undefined,
      Obj(<<>>) }

(***************************************************************************)
(* Actions: one per operation of the module, its arguments drawn from the  *)
(* given sets.                                                             *)
(***************************************************************************)
CallFromJSON(Paths, Names) ==
    \E filePath \in Paths, enumName \in Names :
        LET r == createFromJSON(filePath, enumName, <<>>, files)
        IN  /\ Fits(r)
            /\ files' = r.files
            /\ last' = Completed(Call("createFromJSON", filePath, enumName), r)

CallFromCSV(Paths, Names) ==
    \E filePath \in Paths, newFileName \in Names :
        LET r == createFromCSV(filePath, newFileName, <<>>, files)
        IN  /\ Fits(r)
            /\ files' = r.files
            /\ last' = Completed(Call("createFromCSV", filePath, newFileName), r)

CallFromObject(Objects, Names) ==
    \E object \in Objects, enumName \in Names :
        LET r == createFromObject(object, enumName, <<>>, files)
        IN  /\ Fits(r)
            /\ files' = r.files
            /\ last' = Completed(Call("createFromObject", object, enumName), r)

CallFromArray(Arrays, Names) ==
    \E array \in Arrays, enumName \in Names :
        LET r == createFromArray(array, enumName, <<>>, files)
        IN  /\ Fits(r)
            /\ files' = r.files
            /\ last' = Completed(Call("createFromArray", array, enumName), r)

(***************************************************************************)
(* Specifications.                                                         *)
(***************************************************************************)
\* All four operations on a file system that holds a JSON and a CSV file.
Init ==
    /\ \E f \in MainFiles :
           files = [p \in {PathDJson, PathTCsv} |-> IF p = PathDJson THEN f.json ELSE f.csv]
    /\ last = NoCall

Next ==
    \/ CallFromJSON(MainJsonPaths, MainNames)
    \/ CallFromCSV(MainCsvPaths, MainNames)
    \/ CallFromObject(MainObjects, MainNames)
    \/ CallFromArray(MainArrays, MainNames)

Spec == Init /\ [][Next]_vars

\* createFromObject on generated objects.
InitObject == files = [p \in {} |-> <<>>] /\ last = NoCall

NextObject == CallFromObject(GenObjects, {Str(EnumE)})

SpecObject == InitObject /\ [][NextObject]_vars

\* createFromArray on generated arrays.
InitArray == files = [p \in {} |-> <<>>] /\ last = NoCall

NextArray == CallFromArray(GenArrays, {Str(EnumE)})

SpecArray == InitArray /\ [][NextArray]_vars

\* createFromCSV on generated CSV files.
InitCSV ==
    /\ \E c \in GenCsvTexts : files = [p \in {PathTCsv} |-> c]
    /\ last = NoCall

NextCSV == CallFromCSV({Str(PathTCsv)}, {Str(EnumE)})

SpecCSV == InitCSV /\ [][NextCSV]_vars

\* All four operations with arguments every check accepts, on two output
\* names, one of which makes the output file a path createFromCSV accepts.
OrderNames == {Str(EnumE), Str(NameACsv)}
OrderCalls ==
    {Call("createFromJSON", Str(PathDJson), n) : n \in OrderNames}
    \cup {Call("createFromCSV", Str(q), n) : q \in {PathTCsv, PathACsvTs}, n \in OrderNames}
    \cup {Call("createFromObject", Obj(<<[k |-> <<"a">>, v |-> Str(<<"x">>)]>>), n) : n \in OrderNames}
    \cup {Call("createFromArray", Arr(<<Str(<<"a">>)>>), n) : n \in OrderNames}

InitOrder ==
    /\ files = [p \in {PathDJson, PathTCsv} |->
                    IF p = PathDJson
                    THEN <<"{", "\"", "k", "\"", ":", "\"", "v", "\"", ",", "\"", "2", "\"", ":", "7", "}">>
                    ELSE <<"a", ",", "b", "\n", "x", ",", " ", "y">>]
    /\ last = NoCall

NextOrder ==
    \/ CallFromJSON({Str(PathDJson)}, OrderNames)
    \/ CallFromCSV({Str(PathTCsv), Str(PathACsvTs)}, OrderNames)
    \/ CallFromObject({Obj(<<[k |-> <<"a">>, v |-> Str(<<"x">>)]>>)}, OrderNames)
    \/ CallFromArray({Arr(<<Str(<<"a">>)>>)}, OrderNames)

SpecOrder == InitOrder /\ [][NextOrder]_vars

(***************************************************************************)
(* The written text, read back line by line.                               *)
(***************************************************************************)
IsWrite(e) == e.op = "write"
IsRead(e) == e.op = "read"
WritesOf(io) == SelectSeq(io, IsWrite)
ReadsOf(io) == SelectSeq(io, IsRead)

\* the lines of the text the last call wrote
WrittenLines == split(WritesOf(last.io)[1].data, "\n")

\* the last call ended normally after exactly one write, to `${name}.ts`
WroteOnceTo(name) ==
    /\ last.outcome = "ok"
    /\ Len(WritesOf(last.io)) = 1
    /\ WritesOf(last.io)[1].path = name \o DotTs

ExportDefault == <<"e", "x", "p", "o", "r", "t", " ", "d", "e", "f", "a", "u", "l", "t", " ">>

\* a single-enum file of n entries: its opening line (which ends as the
\* source's template does, `closing` after the brace), n entry lines, the
\* closing brace and the default export
SingleEnumShape(L, name, n) ==
    /\ Len(L) = n + 3
    /\ L[1] = ConstEnum \o name \o <<" ", "{", " ">>
    /\ L[n + 2] = <<"}">>
    /\ L[n + 3] = ExportDefault \o name \o <<";">>

\* the line of one entry: NAME = "value", and what follows the comma
EntryLine(name, value, tail) ==
    name \o <<" ", "=", " ", "\"">> \o value \o <<"\"", ",">> \o tail

(***************************************************************************)
(* C1                                                                      *)
(***************************************************************************)
ValidObjectCall ==
    /\ last.call.op = "createFromObject"
    /\ last.call.a.t = "object"
    /\ last.call.b.t = "string"

ObjectEntryLine(p) == EntryLine(toUpperCase(p.k), TemplateStr(p.v), <<" ">>)

\* the position, among the entry lines, of the entry of property p
EntryPosition(L, p) == CHOOSE j \in 1..(Len(L) - 3) : L[j + 1] = ObjectEntryLine(p)

\* C1 as the spec states it: a valid createFromObject call writes to
\* `${enumName}.ts` an enum named enumName with exactly one entry per key, in
\* the object's insertion order, the i-th entry named by the upper-cased i-th
\* key with the i-th value as a quoted string, then the default export.
C1_InsertionOrder ==
    ValidObjectCall =>
        LET props == last.call.a.props
        IN  /\ WroteOnceTo(last.call.b.s)
            /\ SingleEnumShape(WrittenLines, last.call.b.s, Len(props))
            /\ \A i \in DOMAIN props : WrittenLines[i + 1] = ObjectEntryLine(props[i])

\* C1 amended: the same, except for the order.  The entries come in the order
\* of Object.entries: the keys that are array indices ("2", "10") first, in
\* ascending numeric order, then the other keys in insertion order; so the
\* order is the insertion order when no key is an array index.
C1_EntriesOrder ==
    ValidObjectCall =>
        LET props == last.call.a.props
            L == WrittenLines
        IN  /\ WroteOnceTo(last.call.b.s)
            /\ SingleEnumShape(L, last.call.b.s, Len(props))
            /\ \A i \in DOMAIN props : \E j \in DOMAIN props : L[j + 1] = ObjectEntryLine(props[i])
            /\ \A i, j \in DOMAIN props :
                   LET pi == EntryPosition(L, props[i])
                       pj == EntryPosition(L, props[j])
                   IN  /\ (IsArrayIndex(props[i].k) /\ ~IsArrayIndex(props[j].k)) => pi < pj
                       /\ (/\ IsArrayIndex(props[i].k)
                           /\ IsArrayIndex(props[j].k)
                           /\ StrToNum(props[i].k) < StrToNum(props[j].k)) => pi < pj
                       /\ (/\ ~IsArrayIndex(props[i].k)
                           /\ ~IsArrayIndex(props[j].k)
                           /\ i < j) => pi < pj
            /\ (\A i \in DOMAIN props : ~IsArrayIndex(props[i].k)) =>
                   \A i \in DOMAIN props : L[i + 1] = ObjectEntryLine(props[i])

\* a valid call wrote an object of two named keys, one value a number
C1_Witness ==
    /\ ValidObjectCall
    /\ last.outcome = "ok"
    /\ Len(last.call.a.props) = 2
    /\ \A i \in 1..2 : ~IsArrayIndex(last.call.a.props[i].k)
    /\ \E i \in 1..2 : last.call.a.props[i].v.t = "number"

(***************************************************************************)
(* C4                                                                      *)
(***************************************************************************)
ValidArrayCall ==
    /\ last.call.op = "createFromArray"
    /\ last.call.a.t = "array"
    /\ \A i \in DOMAIN last.call.a.elems : last.call.a.elems[i].t = "string"
    /\ last.call.b.t = "string"

\* C4: a valid createFromArray call on an array of strings writes to
\* `${enumName}.ts` exactly len(array) entries in array order, the i-th with
\* the i-th element as its quoted value and that value upper-cased as its name.
C4_ArrayEntries ==
    ValidArrayCall =>
        LET elems == last.call.a.elems
        IN  /\ WroteOnceTo(last.call.b.s)
            /\ SingleEnumShape(WrittenLines, last.call.b.s, Len(elems))
            /\ \A i \in DOMAIN elems :
                   WrittenLines[i + 1] = EntryLine(toUpperCase(elems[i].s), elems[i].s, <<>>)

\* a valid call wrote an array of two strings, one of them with a lower-case
\* letter to change
C4_Witness ==
    /\ ValidArrayCall
    /\ last.outcome = "ok"
    /\ Len(last.call.a.elems) = 2
    /\ \E i \in 1..2 : toUpperCase(last.call.a.elems[i].s) # last.call.a.elems[i].s

(***************************************************************************)
(* C2, C3, C8: createFromCSV                                               *)
(***************************************************************************)
\* the text the last createFromCSV call read, as the table it stands for
CsvData == ReadsOf(last.io)[1].data
CsvLines == split(CsvData, "\n")
CsvHeadings == split(CsvLines[1], ",")
CsvRowCount == Len(CsvLines) - 1
CsvField(r, h) == split(CsvLines[r + 1], ",")[h]

CsvCallRead ==
    /\ last.call.op = "createFromCSV"
    /\ Len(ReadsOf(last.io)) = 1
    /\ last.outcome # "ENOENT"

\* every data row splits into as many fields as there are headings
CsvWellFormed ==
    \A r \in 1..CsvRowCount : Len(split(CsvLines[r + 1], ",")) = Len(CsvHeadings)

\* a field with some (or none) of its leading spaces removed
RECURSIVE LeadingSpaceCuts(_)
LeadingSpaceCuts(f) ==
    IF f # <<>> /\ Head(f) = " " THEN {f} \cup LeadingSpaceCuts(Tail(f)) ELSE {f}

\* the line of the written text that holds the entry of row r in the enum of
\* heading h, each enum taking an opening line, R entries and a closing line
CsvEntryLineAt(r, h) == WrittenLines[(h - 1) * (CsvRowCount + 2) + 1 + r]

\* C2: for a CSV file of H headings and R data rows of H fields each,
\* createFromCSV writes to `${newFileName}.ts` exactly H enums in heading
\* order, the i-th named by the i-th heading and holding exactly R entries
\* taken from column i in row order, and then exactly one export statement
\* listing every heading once, in heading order.
C2_CsvShape ==
    (CsvCallRead /\ CsvWellFormed) =>
        LET H == Len(CsvHeadings)
            R == CsvRowCount
            L == WrittenLines
        IN  /\ WroteOnceTo(last.call.b.s)
            /\ Len(L) = H * (R + 2) + H + 2
            /\ \A h \in 1..H :
                   /\ L[(h - 1) * (R + 2) + 1] = ConstEnum \o CsvHeadings[h] \o <<" ", "{">>
                   /\ \A r \in 1..R :
                          \E v \in LeadingSpaceCuts(CsvField(r, h)) :
                              CsvEntryLineAt(r, h) = EntryLine(toUpperCase(v), v, <<>>)
                   /\ L[h * (R + 2)] = <<"}">>
                   /\ L[H * (R + 2) + 1 + h] = CsvHeadings[h] \o <<",">>
            /\ L[H * (R + 2) + 1] = <<"e", "x", "p", "o", "r", "t", " ", "{">>
            /\ L[H * (R + 2) + H + 2] = <<"}">>

\* two headings and two full rows were written
C2_Witness ==
    /\ CsvCallRead
    /\ CsvWellFormed
    /\ last.outcome = "ok"
    /\ Len(CsvHeadings) = 2
    /\ CsvRowCount = 2

\* C3: in a createFromCSV call that ends normally, a data field that starts
\* with a space loses exactly that one space (a second space stays) and any
\* other field is unchanged; the entry is named by the upper-cased stripped
\* field and has the stripped field as its quoted value.
C3_OneLeadingSpace ==
    (CsvCallRead /\ last.outcome = "ok") =>
        \A h \in 1..Len(CsvHeadings), r \in 1..CsvRowCount :
            LET f == CsvField(r, h)
                stripped == IF f # <<>> /\ Head(f) = " " THEN Tail(f) ELSE f
            IN  CsvEntryLineAt(r, h) = EntryLine(toUpperCase(stripped), stripped, <<>>)

\* a written file had a field " y", rendered Y = "y", and a field "  z",
\* rendered with one space left
C3_Witness ==
    /\ CsvCallRead
    /\ last.outcome = "ok"
    /\ \E h \in 1..Len(CsvHeadings), r \in 1..CsvRowCount :
           /\ CsvField(r, h) = <<" ", "y">>
           /\ CsvEntryLineAt(r, h) = <<"Y", " ", "=", " ", "\"", "y", "\"", ",">>
    /\ \E h \in 1..Len(CsvHeadings), r \in 1..CsvRowCount :
           /\ CsvField(r, h) = <<" ", " ", "z">>
           /\ CsvEntryLineAt(r, h) = <<" ", "Z", " ", "=", " ", "\"", " ", "z", "\"", ",">>

\* C8: createFromCSV skips empty rows.  When the file ends with a newline
\* (and is a file the call handles once that newline is removed), the call
\* ends normally and writes what it writes for the file without that newline.
C8_SkipsEmptyRow ==
    LET data == CsvData
        cut == SubSeq(data, 1, Len(data) - 1)
        other == createFromCSV(last.call.a, last.call.b, <<>>,
                               [p \in {last.call.a.s} |-> cut])
    IN  (/\ CsvCallRead
         /\ Len(data) > 0
         /\ data[Len(data)] = "\n"
         /\ other.outcome = "ok") =>
            /\ last.outcome = "ok"
            /\ WritesOf(last.io)[1].data = WritesOf(other.io)[1].data

(***************************************************************************)
(* C5, C6, C7: failing calls                                               *)
(***************************************************************************)
Called == last.call.op # "none"

\* C5: a call of any of the four operations with an undefined argument fails
\* with the argument error before any I/O: it reads no file and writes none.
C5_UndefinedArgument ==
    (Called /\ (last.call.a = Undefined \/ last.call.b = Undefined)) =>
        /\ last.outcome = "ArgumentError"
        /\ last.io = <<>>

\* createFromArray was called with an array and no name
C5_Witness ==
    /\ last.call.op = "createFromArray"
    /\ last.call.a.t = "array"
    /\ last.call.b = Undefined
    /\ last.outcome = "ArgumentError"

\* the last call was `op` on two strings, the path without `extension`
WrongFileType(op, extension) ==
    /\ last.call.op = op
    /\ last.call.a.t = "string"
    /\ last.call.b.t = "string"
    /\ \A i \in 1..(Len(last.call.a.s) - Len(extension) + 1) :
           SubSeq(last.call.a.s, i, i + Len(extension) - 1) # extension

\* C6: createFromJSON on a path without ".json" and createFromCSV on a path
\* without ".csv" fail with the invalid-file-type error before any read, and
\* write nothing.
C6_WrongFileType ==
    (\/ WrongFileType("createFromJSON", <<".", "j", "s", "o", "n">>)
     \/ WrongFileType("createFromCSV", <<".", "c", "s", "v">>)) =>
        /\ last.outcome = "InvalidFileTypeError"
        /\ last.io = <<>>

\* createFromCSV was called on the existing file d.json
C6_Witness ==
    /\ WrongFileType("createFromCSV", <<".", "c", "s", "v">>)
    /\ last.call.a.s \in DOMAIN files
    /\ last.outcome = "InvalidFileTypeError"

\* C7: a call that fails, at whatever point, writes nothing: the files and
\* their contents are after it what they were before it.
C7_FailureWritesNothing ==
    [][last'.outcome # "ok" => (files' = files /\ WritesOf(last'.io) = <<>>)]_vars

\* createFromCSV failed on a short row, after the header and the rows before
\* it were assembled, while an output file of that name existed
C7_Witness ==
    /\ last.call.op = "createFromCSV"
    /\ last.outcome = "TypeError"
    /\ Len(ReadsOf(last.io)) = 1
    /\ TemplateStr(last.call.b) \o DotTs \in DOMAIN files

(***************************************************************************)
(* C9, C10: calls in sequence                                              *)
(***************************************************************************)
OutputPath(c) == TemplateStr(c.b) \o <<".", "t", "s">>

\* the file a call reads, if it reads one
InputPaths(c) ==
    IF c.op \in {"createFromJSON", "createFromCSV"} THEN {c.a.s} ELSE {}

\* the files after call c and then call d, from the file system fs
FilesAfter(c, d, fs) == Run(d, Run(c, fs).files).files

\* a call that ends normally has written once, to `${name}.ts`, the text it
\* assembled, which replaces what the file held; no other file changes
OneWriteLastWins ==
    last'.outcome = "ok" =>
        LET w == WritesOf(last'.io)
        IN  /\ Len(w) = 1
            /\ w[1].path = OutputPath(last'.call)
            /\ DOMAIN files' = DOMAIN files \cup {w[1].path}
            /\ files'[w[1].path] = w[1].data
            /\ \A p \in DOMAIN files : p # w[1].path => files'[p] = files[p]

\* two calls with different output names leave the same files in either order
OrderFree ==
    \A c, d \in OrderCalls :
        OutputPath(c) # OutputPath(d) => FilesAfter(c, d, files) = FilesAfter(d, c, files)

\* the same, for two calls neither of which reads the file the other writes
OrderFreeUnlessRead ==
    \A c, d \in OrderCalls :
        (/\ OutputPath(c) # OutputPath(d)
         /\ OutputPath(c) \notin InputPaths(d)
         /\ OutputPath(d) \notin InputPaths(c)) =>
            FilesAfter(c, d, files) = FilesAfter(d, c, files)

\* C9 as the spec states it: every call that ends normally performs exactly
\* one write, to `${name}.ts`, replacing the file's content and changing no
\* other file, and any two calls with different output names give the same
\* final files in either order.
C9_AnyOrder == []OrderFree /\ [][OneWriteLastWins]_vars

\* C9 amended: the same, the two calls being such that neither reads, as its
\* input file, the file the other writes.
C9_OrderUnlessRead == []OrderFreeUnlessRead /\ [][OneWriteLastWins]_vars

\* both output files exist, the last call having replaced one of them
C9_Witness ==
    /\ last.outcome = "ok"
    /\ last.again
    /\ {EnumE \o DotTs, PathACsvTs} \subseteq DOMAIN files
    /\ files[EnumE \o DotTs] # files[PathACsvTs]

\* the file the last call read still holds what the call read
InputUnchanged ==
    \A i \in DOMAIN last.io :
        last.io[i].op = "read" =>
            /\ last.io[i].path \in DOMAIN files
            /\ files[last.io[i].path] = last.io[i].data

\* C10: a call repeated at once with the same arguments, its input file being
\* unchanged, writes the same text again, and leaves the files as the first
\* call left them.
C10_Idempotent ==
    [][(/\ last'.call = last.call
        /\ last.outcome = "ok"
        /\ InputUnchanged) =>
           (/\ last'.outcome = "ok"
            /\ WritesOf(last'.io) = WritesOf(last.io)
            /\ files' = files)]_vars

\* createFromCSV ran twice in a row on a file the first run left as it was
C10_Witness ==
    /\ last.again
    /\ last.outcome = "ok"
    /\ last.call.op = "createFromCSV"
    /\ InputUnchanged

=============================================================================
